---- MODULE Spec2Model ----
(***************************************************************************)
(* Model of pydocx.openxml.wordprocessing.paragraph.Paragraph.             *)
(*                                                                         *)
(* A paragraph is a sequence of paragraph children (p_child).  A p_child   *)
(* is the record [kind, children]: kind "Run" is a Run, any other kind is  *)
(* one of the non-Run variants (Hyperlink, ...).  A run child (r_child) is *)
(* the record [type, text]: type "Text" carries a string, type "TabChar"   *)
(* stands for the non-Text inline nodes and carries no text.  Strings are  *)
(* sequences of one-character strings.                                     *)
(***************************************************************************)
EXTENDS Integers, Sequences, FiniteSets

VARIABLES
    children,       \* Paragraph.children
    prev,           \* Paragraph.children as it was before the last call
    op,             \* the last TextAccessor call
    prevOp,         \* the call before it
    arg,            \* the argument of the last call, when it was strip_text_from_left
    retText,        \* the value the last call returned, when it was get_text
    retCount,       \* the value get_number_of_initial_tabs returned, when it was the
                    \* last call or the one before a remove_initial_tabs
    properties,     \* Paragraph.properties
    effective,      \* Paragraph._effective_properties
    styles,         \* the style table of container.style_definitions_part
    hasStylePart,   \* container has a style_definitions_part
    headingCache,   \* [has, style]: hasattr(self, '_heading_style') and its value
    pc,             \* position of a heading_style read: "idle" or "loop"
    walk,           \* the suspended style chain generator and the loop's local
    hret,           \* what the heading_style read returned, when it was the last operation
    hop,            \* the last style operation
    firstHeading,   \* [read, style, set]: the value the first heading_style read
                    \* returned, or the value a caller gave the setter since (set)
    numbering,      \* the numbering table of container.numbering_definitions_part
    hasNumPart,     \* container has a numbering_definitions_part
    nop,            \* the last numbering/effective_properties operation
    nret,           \* what the last numbering call returned
    lookupMade,     \* the last numbering call reached a table lookup
    retEff,         \* what the last effective_properties read returned
    firstEff        \* [read, value]: what the first effective_properties read returned

textVars == <<children, prev, op, prevOp, arg, retText, retCount>>
styleVars == <<styles, hasStylePart, headingCache, pc, walk, hret, hop,
               firstHeading>>
numVars == <<effective, numbering, hasNumPart, nop, nret, lookupMade, retEff, firstEff>>
vars == <<children, prev, op, prevOp, arg, retText, retCount, properties, effective,
          styles, hasStylePart, headingCache, pc, walk, hret, hop, firstHeading,
          numbering, hasNumPart, nop, nret, lookupMade, retEff, firstEff>>

----------------------------------------------------------------------------
(* Bounds of the checked inputs. *)

MaxFragLen == 2         \* longest Text fragment of the text inputs
MaxRunLen == 2          \* most children of a run of the text inputs
MaxParaLen == 2         \* most children of a paragraph of the text inputs
MaxArgLen == 2          \* longest strip argument that is not a prefix of get_text()
MaxTabRunLen == 2       \* most children of a run of the tab inputs
MaxTabParaLen == 3      \* most children of a paragraph of the tab inputs

Alphabet == {"a", "b"}

Strings(n) == UNION {[1..k -> Alphabet] : k \in 0..n}

Text(s) == [type |-> "Text", text |-> s]
TabChar == [type |-> "TabChar", text |-> <<>>]
Run(c) == [kind |-> "Run", children |-> c]
Hyperlink(c) == [kind |-> "Hyperlink", children |-> c]

SeqsUpTo(S, n) == UNION {[1..k -> S] : k \in 0..n}

\* The content given to every non-Run paragraph child of the inputs: a tab and a text.
LinkContent == <<TabChar, Text(<<"a">>)>>

TextRChildren == {TabChar} \cup {Text(s) : s \in Strings(MaxFragLen)}
TextPChildren == {Run(c) : c \in SeqsUpTo(TextRChildren, MaxRunLen)} \cup {Hyperlink(LinkContent)}
TextParagraphs == SeqsUpTo(TextPChildren, MaxParaLen)

TabRChildren == {TabChar, Text(<<"a">>)}
TabPChildren == {Run(c) : c \in SeqsUpTo(TabRChildren, MaxTabRunLen)} \cup {Hyperlink(LinkContent)}
TabParagraphs == SeqsUpTo(TabPChildren, MaxTabParaLen)

----------------------------------------------------------------------------
(* String primitives of the source language. *)

\* s.startswith(t)
StartsWith(s, t) == Len(t) <= Len(s) /\ SubSeq(s, 1, Len(t)) = t

\* s[n:]
SliceFrom(s, n) == SubSeq(s, n + 1, Len(s))

\* s[:n]
SliceTo(s, n) == SubSeq(s, 1, IF n < Len(s) THEN n ELSE Len(s))

----------------------------------------------------------------------------
(* TextAccessor: get_text, strip_text_from_left, the tab functions. *)

\* Paragraph.runs: the Run children, in order.
RECURSIVE runs(_)
runs(pcs) ==
    IF pcs = <<>> THEN <<>>
    ELSE IF Head(pcs).kind = "Run" THEN <<Head(pcs)>> \o runs(Tail(pcs))
    ELSE runs(Tail(pcs))

\* The inner loop of get_text over one run's children.
RECURSIVE RunText(_)
RunText(rcs) ==
    IF rcs = <<>> THEN <<>>
    ELSE IF Head(rcs).type = "Text" /\ Head(rcs).text # <<>>
         THEN Head(rcs).text \o RunText(Tail(rcs))
         ELSE RunText(Tail(rcs))

RECURSIVE JoinRuns(_)
JoinRuns(rs) == IF rs = <<>> THEN <<>> ELSE RunText(Head(rs).children) \o JoinRuns(Tail(rs))

get_text(pcs) == JoinRuns(runs(pcs))

\* A variant of StripChild that keeps the head of the fragment instead of its tail.
StripChildKeepsHead(r_child, text, len_text) ==
    IF r_child.type = "Text" /\ r_child.text # <<>>
    THEN IF Len(r_child.text) >= len_text
         THEN IF StartsWith(r_child.text, text)
              THEN [node |-> [r_child EXCEPT !.text = SliceTo(@, len_text)], text |-> text]
              ELSE [node |-> r_child, text |-> text]
         ELSE IF StartsWith(text, r_child.text)
              THEN [node |-> [r_child EXCEPT !.text = <<>>],
                    text |-> SliceFrom(text, Len(r_child.text))]
              ELSE [node |-> r_child, text |-> text]
    ELSE [node |-> r_child, text |-> text]

\* A variant of StripChild that clears a fragment without consuming it from text.
StripChildNoAdvance(r_child, text, len_text) ==
    IF r_child.type = "Text" /\ r_child.text # <<>>
    THEN IF Len(r_child.text) >= len_text
         THEN IF StartsWith(r_child.text, text)
              THEN [node |-> [r_child EXCEPT !.text = SliceFrom(@, len_text)], text |-> text]
              ELSE [node |-> r_child, text |-> text]
         ELSE IF StartsWith(text, r_child.text)
              THEN [node |-> [r_child EXCEPT !.text = <<>>], text |-> text]
              ELSE [node |-> r_child, text |-> text]
    ELSE [node |-> r_child, text |-> text]

\* The body of strip_text_from_left's inner loop for one r_child: the node and
\* the local `text` after it.  len_text is computed once, before the loops.
StripChild(r_child, text, len_text) ==
    IF r_child.type = "Text" /\ r_child.text # <<>>
    THEN IF Len(r_child.text) >= len_text
         THEN IF StartsWith(r_child.text, text)
              THEN [node |-> [r_child EXCEPT !.text = SliceFrom(@, len_text)], text |-> text]
              ELSE [node |-> r_child, text |-> text]
         ELSE IF StartsWith(text, r_child.text)
              THEN [node |-> [r_child EXCEPT !.text = <<>>],
                    text |-> SliceFrom(text, Len(r_child.text))]
              ELSE [node |-> r_child, text |-> text]
    ELSE [node |-> r_child, text |-> text]

\* The inner loop over one run's children: the children and the local `text` after it.
RECURSIVE StripRun(_, _, _)
StripRun(rcs, text, len_text) ==
    IF rcs = <<>> THEN [children |-> <<>>, text |-> text]
    ELSE LET one == StripChild(Head(rcs), text, len_text)
             rest == StripRun(Tail(rcs), one.text, len_text)
         IN [children |-> <<one.node>> \o rest.children, text |-> rest.text]

\* The outer loop over self.runs; non-Run children are passed over.
RECURSIVE StripParagraph(_, _, _)
StripParagraph(pcs, text, len_text) ==
    IF pcs = <<>> THEN <<>>
    ELSE IF Head(pcs).kind = "Run"
         THEN LET r == StripRun(Head(pcs).children, text, len_text)
              IN <<[Head(pcs) EXCEPT !.children = r.children]>>
                     \o StripParagraph(Tail(pcs), r.text, len_text)
         ELSE <<Head(pcs)>> \o StripParagraph(Tail(pcs), text, len_text)

strip_text_from_left(pcs, text) == StripParagraph(pcs, text, Len(text))

\* A variant of RemoveRunTabs that iterates the list it removes from, and so
\* skips the element after each removed one.
RECURSIVE RemoveRunTabsNoCopy(_)
RemoveRunTabsNoCopy(rcs) ==
    IF rcs # <<>> /\ Head(rcs).type = "TabChar"
    THEN IF Tail(rcs) # <<>> /\ Head(Tail(rcs)).type = "TabChar"
         THEN <<Head(Tail(rcs))>> \o RemoveRunTabsNoCopy(Tail(Tail(rcs)))
         ELSE Tail(rcs)
    ELSE rcs

\* The inner loop of remove_initial_tabs over a copy of one run's children: the
\* TabChars at the front are removed, up to the first other node.
RECURSIVE RemoveRunTabs(_)
RemoveRunTabs(rcs) ==
    IF rcs # <<>> /\ Head(rcs).type = "TabChar" THEN RemoveRunTabs(Tail(rcs)) ELSE rcs

\* The outer loop of remove_initial_tabs: every Run up to the first non-Run child.
RECURSIVE remove_initial_tabs(_)
remove_initial_tabs(pcs) ==
    IF pcs = <<>> THEN <<>>
    ELSE IF Head(pcs).kind = "Run"
         THEN <<[Head(pcs) EXCEPT !.children = RemoveRunTabs(@)]>>
                  \o remove_initial_tabs(Tail(pcs))
         ELSE pcs

\* The inner loop of get_number_of_initial_tabs over one run's children.
RECURSIVE CountRunTabs(_)
CountRunTabs(rcs) ==
    IF rcs # <<>> /\ Head(rcs).type = "TabChar" THEN 1 + CountRunTabs(Tail(rcs)) ELSE 0

\* A variant of get_number_of_initial_tabs that stops for good at the first
\* run holding a node that is not a TabChar.
RECURSIVE CountTabsStopAtFirst(_)
CountTabsStopAtFirst(pcs) ==
    IF pcs = <<>> THEN 0
    ELSE IF Head(pcs).kind = "Run"
         THEN IF CountRunTabs(Head(pcs).children) = Len(Head(pcs).children)
              THEN CountRunTabs(Head(pcs).children) + CountTabsStopAtFirst(Tail(pcs))
              ELSE CountRunTabs(Head(pcs).children)
         ELSE 0

\* The outer loop of get_number_of_initial_tabs.
RECURSIVE get_number_of_initial_tabs(_)
get_number_of_initial_tabs(pcs) ==
    IF pcs = <<>> THEN 0
    ELSE IF Head(pcs).kind = "Run"
         THEN CountRunTabs(Head(pcs).children) + get_number_of_initial_tabs(Tail(pcs))
         ELSE 0

----------------------------------------------------------------------------
(* Paragraph.properties.  A paragraph without properties (None) is NoProperties; *)
(* parent_style 0 is "no parent style"; has_num FALSE is "numbering_properties   *)
(* is None".                                                                     *)

NumStyles == 2          \* styles of the style table
MaxNumId == 2           \* numbering definition ids
NumLevels == 1          \* numbering level ids, from 0

StyleIds == 1..NumStyles
NumIds == 1..MaxNumId
LevelIds == 0..(NumLevels - 1)

NoProperties ==
    [present |-> FALSE, parent_style |-> 0, has_num |-> FALSE, num_id |-> 0, level_id |-> 0]

\* What a numbering call gives its caller: no result (None), a definition, a
\* level, or an exception.
None == [kind |-> "None", num_id |-> 0, level_id |-> 0]
Raised == [kind |-> "Raise", num_id |-> 0, level_id |-> 0]

StyleProperties ==
    {NoProperties} \cup
    {[present |-> TRUE, parent_style |-> s, has_num |-> FALSE, num_id |-> 0, level_id |-> 0]
        : s \in 0..NumStyles}

NumProperties ==
    {NoProperties} \cup
    {[present |-> TRUE, parent_style |-> 0, has_num |-> FALSE, num_id |-> 0, level_id |-> 0]}
    \cup
    {[present |-> TRUE, parent_style |-> 0, has_num |-> TRUE, num_id |-> n, level_id |-> l]
        : n \in NumIds, l \in LevelIds}

----------------------------------------------------------------------------
(* StyleChainResolver: get_style_chain_stack and heading_style. *)

Fatal == 0 - 1          \* hret of a read that ended with the chain's fatal condition

StyleTables == [StyleIds -> [parent : 0..NumStyles, heading : BOOLEAN]]

\* A variant of ChainNext that follows parent links without remembering them.
ChainNextNoCycleCheck(tbl, cur, visited) ==
    IF cur = 0 THEN [kind |-> "stop", style |-> 0, next |-> 0]
    ELSE [kind |-> "yield", style |-> cur, next |-> tbl[cur].parent]

\* One pull from the chain walk of the container's style table: the styles from
\* the starting one up its parent links; a style met twice is a fatal condition.
ChainNext(tbl, cur, visited) ==
    IF cur = 0 THEN [kind |-> "stop", style |-> 0, next |-> 0]
    ELSE IF cur \in visited THEN [kind |-> "fatal", style |-> 0, next |-> 0]
    ELSE [kind |-> "yield", style |-> cur, next |-> tbl[cur].parent]

\* The styles the chain walk yields, in order, up to its end or its fatal condition.
RECURSIVE ChainSeq(_, _, _)
ChainSeq(tbl, cur, visited) ==
    IF cur = 0 \/ cur \in visited THEN <<>>
    ELSE <<cur>> \o ChainSeq(tbl, tbl[cur].parent, visited \cup {cur})

\* Style.is_a_heading()
is_a_heading(tbl, s) == tbl[s].heading

\* Paragraph.get_style_chain_stack up to the delegation: the style the chain walk
\* starts from, 0 when the generator returns without yielding.
get_style_chain_stack(props, hasPart) ==
    IF ~props.present THEN 0
    ELSE IF props.parent_style = 0 THEN 0
    ELSE IF hasPart THEN props.parent_style
    ELSE 0

\* A variant of HasCachedHeading that tests the cached value instead of its presence.
HasCachedHeadingTruthy(cache) == cache.has /\ cache.style # 0

\* hasattr(self, '_heading_style')
HasCachedHeading(cache) == cache.has

\* The body of heading_style's loop for one style: the local heading_style and
\* whether the loop breaks.
HeadingLoopBody(tbl, style, heading_style) ==
    IF is_a_heading(tbl, style)
    THEN [heading_style |-> style, brk |-> TRUE]
    ELSE [heading_style |-> heading_style, brk |-> FALSE]

\* No generator is held outside a read.
NoWalk == [cur |-> 0, visited |-> {}, heading_style |-> 0]

NoteFirstHeading(first, value) ==
    IF first.read THEN first ELSE [read |-> TRUE, style |-> value, set |-> first.set]

\* heading_style, up to the loop: a cached value is returned, otherwise the
\* generator is created and heading_style = None.
HeadingStyleRead ==
    /\ pc = "idle"
    /\ IF HasCachedHeading(headingCache)
       THEN /\ hret' = headingCache.style
            /\ hop' = "cached"
            /\ firstHeading' = NoteFirstHeading(firstHeading, headingCache.style)
            /\ UNCHANGED <<pc, walk>>
       ELSE /\ pc' = "loop"
            /\ walk' = [cur |-> get_style_chain_stack(properties, hasStylePart),
                        visited |-> {}, heading_style |-> 0]
            /\ hop' = "begin"
            /\ hret' = 0
            /\ UNCHANGED firstHeading
    /\ UNCHANGED <<headingCache, styles, hasStylePart, properties>>
    /\ UNCHANGED textVars
    /\ UNCHANGED numVars

\* One iteration of heading_style's loop: pull a style, test it; at the end of
\* the loop the result is stored through the setter and returned.
HeadingStylePull ==
    /\ pc = "loop"
    /\ LET n == ChainNext(styles, walk.cur, walk.visited)
           body == HeadingLoopBody(styles, n.style, walk.heading_style)
       IN CASE n.kind = "fatal" ->
                 /\ pc' = "idle"
                 /\ hret' = Fatal
                 /\ hop' = "fatal"
                 /\ walk' = NoWalk
                 /\ UNCHANGED <<headingCache, firstHeading>>
            [] n.kind = "stop" \/ (n.kind = "yield" /\ body.brk) ->
                 LET result == IF n.kind = "stop" THEN walk.heading_style
                               ELSE body.heading_style
                 IN /\ pc' = "idle"
                    /\ headingCache' = [has |-> TRUE, style |-> result]
                    /\ hret' = result
                    /\ hop' = "computed"
                    /\ firstHeading' = NoteFirstHeading(firstHeading, result)
                    /\ walk' = NoWalk
            [] OTHER ->
                 /\ walk' = [cur |-> n.next, visited |-> walk.visited \cup {n.style},
                             heading_style |-> body.heading_style]
                 /\ UNCHANGED <<pc, headingCache, hret, hop, firstHeading>>
    /\ UNCHANGED <<styles, hasStylePart, properties>>
    /\ UNCHANGED textVars
    /\ UNCHANGED numVars

\* The heading_style setter, called by a caller.
HeadingStyleSet ==
    /\ pc = "idle"
    /\ \E s \in 0..NumStyles :
          /\ headingCache' = [has |-> TRUE, style |-> s]
          /\ firstHeading' = [read |-> TRUE, style |-> s, set |-> TRUE]
    /\ hop' = "setter"
    /\ hret' = 0
    /\ UNCHANGED <<styles, hasStylePart, pc, walk, properties>>
    /\ UNCHANGED textVars
    /\ UNCHANGED numVars

\* An assignment to Paragraph.properties.
SetProperties(p) ==
    /\ pc = "idle"
    /\ properties' = p
    /\ hop' = "mutate"
    /\ hret' = 0
    /\ nop' = "mutate"
    /\ nret' = None
    /\ lookupMade' = FALSE
    /\ retEff' = NoProperties
    /\ UNCHANGED <<styles, hasStylePart, headingCache, pc, walk, firstHeading>>
    /\ UNCHANGED <<effective, numbering, hasNumPart, firstEff>>
    /\ UNCHANGED textVars

AssignStyleProperties == \E p \in StyleProperties : SetProperties(p)

AssignNumProperties == \E p \in NumProperties : SetProperties(p)

\* A change of one style of the container's style table: its parent style or
\* whether it is a heading.
SetStyle ==
    /\ pc = "idle"
    /\ \E s \in StyleIds :
          \/ \E q \in 0..NumStyles : styles' = [styles EXCEPT ![s].parent = q]
          \/ styles' = [styles EXCEPT ![s].heading = ~@]
    /\ hop' = "mutate"
    /\ hret' = 0
    /\ UNCHANGED <<hasStylePart, headingCache, pc, walk, firstHeading, properties>>
    /\ UNCHANGED textVars
    /\ UNCHANGED numVars

----------------------------------------------------------------------------
(* NumberingResolver and effective_properties. *)

\* The numbering tables: per definition id, whether the table has a definition
\* of it and the level ids that definition has.
NumberingTables ==
    {t \in [NumIds -> [defined : BOOLEAN, levels : SUBSET LevelIds]] :
        \A n \in NumIds : ~t[n].defined => t[n].levels = {}}

\* part.numbering.get_numbering_definition(num_id=...): the definition of that
\* id, no result when the table has none.
NumberingLookup(tbl, num_id) ==
    IF num_id \in DOMAIN tbl /\ tbl[num_id].defined
    THEN [kind |-> "Definition", num_id |-> num_id, level_id |-> 0]
    ELSE None

\* numbering_definition.get_level(level_id=...): the level of that id, no result
\* when the definition has none.
LevelLookup(tbl, def, level_id) ==
    IF level_id \in tbl[def.num_id].levels
    THEN [kind |-> "Level", num_id |-> def.num_id, level_id |-> level_id]
    ELSE None

\* The effective_properties getter: the value of _effective_properties after
\* the read, which is the value returned.
effective_properties(eff, props) == IF ~eff.present THEN props ELSE eff

\* A variant of get_numbering_definition without the test of numbering_properties.
GetDefinitionNoNumCheck(hasPart, tbl, eff, props) ==
    IF ~hasPart THEN [ret |-> None, eff |-> eff, lookup |-> FALSE, read |-> FALSE]
    ELSE LET e == effective_properties(eff, props)
         IN IF ~e.present THEN [ret |-> None, eff |-> e, lookup |-> FALSE, read |-> TRUE]
            ELSE IF ~e.has_num
                 THEN [ret |-> Raised, eff |-> e, lookup |-> FALSE, read |-> TRUE]
                 ELSE [ret |-> NumberingLookup(tbl, e.num_id), eff |-> e,
                       lookup |-> TRUE, read |-> TRUE]

\* get_numbering_definition: the value returned, _effective_properties after the
\* call, whether the table lookup was made, whether effective_properties was read.
get_numbering_definition(hasPart, tbl, eff, props) ==
    IF ~hasPart THEN [ret |-> None, eff |-> eff, lookup |-> FALSE, read |-> FALSE]
    ELSE LET e == effective_properties(eff, props)
         IN IF ~e.present THEN [ret |-> None, eff |-> e, lookup |-> FALSE, read |-> TRUE]
            ELSE IF ~e.has_num
                 THEN [ret |-> None, eff |-> e, lookup |-> FALSE, read |-> TRUE]
                 ELSE [ret |-> NumberingLookup(tbl, e.num_id), eff |-> e,
                       lookup |-> TRUE, read |-> TRUE]

\* get_numbering_level, with the same four results.
get_numbering_level(hasPart, tbl, eff, props) ==
    LET d == get_numbering_definition(hasPart, tbl, eff, props)
    IN IF d.ret.kind = "Raise" THEN d
       ELSE IF d.ret.kind = "None" THEN d
       ELSE LET e == effective_properties(d.eff, props)
            IN IF ~e.present THEN [d EXCEPT !.ret = None, !.eff = e]
               ELSE IF ~e.has_num THEN [d EXCEPT !.ret = None, !.eff = e]
               ELSE [d EXCEPT !.ret = LevelLookup(tbl, d.ret, e.level_id), !.eff = e]

NoteFirstEff(first, read, value) ==
    IF first.read \/ ~read THEN first ELSE [read |-> TRUE, value |-> value]

\* A read of the effective_properties property by a caller.
ReadEffectiveProperties ==
    /\ effective' = effective_properties(effective, properties)
    /\ retEff' = effective'
    /\ firstEff' = NoteFirstEff(firstEff, TRUE, effective')
    /\ nop' = "read"
    /\ nret' = None
    /\ lookupMade' = FALSE
    /\ UNCHANGED <<numbering, hasNumPart, properties>>
    /\ UNCHANGED textVars
    /\ UNCHANGED styleVars

\* A call of get_numbering_definition.
GetNumberingDefinition ==
    /\ LET r == get_numbering_definition(hasNumPart, numbering, effective, properties)
       IN /\ nret' = r.ret
          /\ effective' = r.eff
          /\ lookupMade' = r.lookup
          /\ firstEff' = NoteFirstEff(firstEff, r.read, r.eff)
    /\ nop' = "getdef"
    /\ retEff' = NoProperties
    /\ UNCHANGED <<numbering, hasNumPart, properties>>
    /\ UNCHANGED textVars
    /\ UNCHANGED styleVars

\* A call of get_numbering_level.
GetNumberingLevel ==
    /\ LET r == get_numbering_level(hasNumPart, numbering, effective, properties)
       IN /\ nret' = r.ret
          /\ effective' = r.eff
          /\ lookupMade' = r.lookup
          /\ firstEff' = NoteFirstEff(firstEff, r.read, r.eff)
    /\ nop' = "getlevel"
    /\ retEff' = NoProperties
    /\ UNCHANGED <<numbering, hasNumPart, properties>>
    /\ UNCHANGED textVars
    /\ UNCHANGED styleVars

----------------------------------------------------------------------------
(* The calls of the TextAccessor. *)

Prefixes(s) == {SubSeq(s, 1, k) : k \in 0..Len(s)}

Call(name) ==
    /\ prev' = children
    /\ prevOp' = op
    /\ op' = name

\* strip_text_from_left(text), for a prefix of get_text() or any short string.
StripTextFromLeft ==
    /\ \E text \in Prefixes(get_text(children)) \cup Strings(MaxArgLen) :
          /\ children' = strip_text_from_left(children, text)
          /\ arg' = text
    /\ Call("strip")
    /\ retText' = <<>>
    /\ retCount' = 0
    /\ UNCHANGED properties
    /\ UNCHANGED styleVars
    /\ UNCHANGED numVars

\* get_text()
GetText ==
    /\ retText' = get_text(children)
    /\ Call("get_text")
    /\ arg' = <<>>
    /\ retCount' = 0
    /\ UNCHANGED <<children, properties>>
    /\ UNCHANGED styleVars
    /\ UNCHANGED numVars

\* remove_initial_tabs()
RemoveInitialTabs ==
    /\ children' = remove_initial_tabs(children)
    /\ Call("remove")
    /\ UNCHANGED <<arg, retText, retCount, properties>>
    /\ UNCHANGED styleVars
    /\ UNCHANGED numVars

\* get_number_of_initial_tabs()
GetNumberOfInitialTabs ==
    /\ retCount' = get_number_of_initial_tabs(children)
    /\ Call("count")
    /\ UNCHANGED <<children, arg, retText, properties>>
    /\ UNCHANGED styleVars
    /\ UNCHANGED numVars

----------------------------------------------------------------------------
(* Specifications. *)

\* Paragraph.__init__ and the fields nothing computed yet.
InitText(paragraphs) ==
    /\ children \in paragraphs
    /\ prev = children
    /\ op = "init"
    /\ prevOp = "init"
    /\ arg = <<>>
    /\ retText = <<>>
    /\ retCount = 0

InitStyleState(tables, parts, props) ==
    /\ properties \in props
    /\ styles \in tables
    /\ hasStylePart \in parts
    /\ headingCache = [has |-> FALSE, style |-> 0]
    /\ pc = "idle"
    /\ walk = NoWalk
    /\ hret = 0
    /\ hop = "init"
    /\ firstHeading = [read |-> FALSE, style |-> 0, set |-> FALSE]

InitNumState(tables, parts) ==
    /\ effective = NoProperties
    /\ numbering \in tables
    /\ hasNumPart \in parts
    /\ nop = "init"
    /\ nret = None
    /\ lookupMade = FALSE
    /\ retEff = NoProperties
    /\ firstEff = [read |-> FALSE, value |-> NoProperties]

PlainStyles == [s \in StyleIds |-> [parent |-> 0, heading |-> FALSE]]
EmptyNumbering == [n \in NumIds |-> [defined |-> FALSE, levels |-> {}]]

\* The text of a paragraph: every bounded paragraph, its text read and stripped.
Init ==
    /\ InitText(TextParagraphs)
    /\ InitStyleState({PlainStyles}, {FALSE}, {NoProperties})
    /\ InitNumState({EmptyNumbering}, {FALSE})

Next == StripTextFromLeft \/ GetText

Spec == Init /\ [][Next]_vars

\* The leading tabs of a paragraph: every bounded paragraph of tabs and other nodes.
InitTabs ==
    /\ InitText(TabParagraphs)
    /\ InitStyleState({PlainStyles}, {FALSE}, {NoProperties})
    /\ InitNumState({EmptyNumbering}, {FALSE})

NextTabs == RemoveInitialTabs \/ GetNumberOfInitialTabs

SpecTabs == InitTabs /\ [][NextTabs]_vars

\* The heading of a paragraph: every style table and parent style, reads of
\* heading_style between changes of the table and of the properties.
InitStyle ==
    /\ InitText({<<>>})
    /\ InitStyleState(StyleTables, BOOLEAN, StyleProperties)
    /\ InitNumState({EmptyNumbering}, {FALSE})

NextStyle ==
    HeadingStyleRead \/ HeadingStylePull \/ HeadingStyleSet \/ AssignStyleProperties
        \/ SetStyle

SpecStyle == InitStyle /\ [][NextStyle]_vars

\* A started heading_style read runs on: the conversion is single-threaded and
\* synchronous.
FairStyle == SpecStyle /\ WF_vars(HeadingStylePull)

\* The numbering of a paragraph: every numbering table and numbering reference.
InitNum ==
    /\ InitText({<<>>})
    /\ InitStyleState({PlainStyles}, {FALSE}, NumProperties)
    /\ InitNumState(NumberingTables, BOOLEAN)

NextNum ==
    ReadEffectiveProperties \/ GetNumberingDefinition \/ GetNumberingLevel
        \/ AssignNumProperties

SpecNum == InitNum /\ [][NextNum]_vars

----------------------------------------------------------------------------
(* Properties. *)

\* The TabChar nodes anywhere in a paragraph.
RECURSIVE TabsIn(_)
TabsIn(rcs) ==
    IF rcs = <<>> THEN 0
    ELSE (IF Head(rcs).type = "TabChar" THEN 1 ELSE 0) + TabsIn(Tail(rcs))

RECURSIVE NumTabs(_)
NumTabs(pcs) == IF pcs = <<>> THEN 0 ELSE TabsIn(Head(pcs).children) + NumTabs(Tail(pcs))

IsSuffix(t, s) == Len(t) <= Len(s) /\ SubSeq(s, Len(s) - Len(t) + 1, Len(s)) = t

HasOther(rcs) == \E k \in 1..Len(rcs) : rcs[k].type # "TabChar"

FilledTexts(rcs) == {k \in 1..Len(rcs) : rcs[k].type = "Text" /\ rcs[k].text # <<>>}

\* The first style of a chain that is a heading, 0 when there is none.
RECURSIVE FirstHeading(_, _)
FirstHeading(tbl, chain) ==
    IF chain = <<>> THEN 0
    ELSE IF tbl[Head(chain)].heading THEN Head(chain)
    ELSE FirstHeading(tbl, Tail(chain))

\* The paragraph's style chain as the tables stand.
CurrentChain == ChainSeq(styles, get_style_chain_stack(properties, hasStylePart), {})

\* The chain walk from the paragraph's parent style comes back to a style it has
\* yielded, and no style on the way is a heading.
RECURSIVE Cyclic(_, _, _)
Cyclic(tbl, cur, visited) ==
    IF cur = 0 THEN FALSE
    ELSE IF cur \in visited THEN TRUE
    ELSE Cyclic(tbl, tbl[cur].parent, visited \cup {cur})

CyclicNoHeading ==
    /\ Cyclic(styles, get_style_chain_stack(properties, hasStylePart), {})
    /\ FirstHeading(styles, CurrentChain) = 0

\* C1: after strip_text_from_left(P) with P an exact prefix of get_text() = S,
\* get_text() is S without its first len(P) characters.
C1_StripRemovesPrefix ==
    (op = "strip" /\ StartsWith(get_text(prev), arg))
        => get_text(children) = SliceFrom(get_text(prev), Len(arg))

\* C2: get_number_of_initial_tabs() changes no node, and the number it returns is
\* the number of TabChar nodes the remove_initial_tabs() call right after it deletes.
C2_CountIsWhatRemoveDeletes ==
    /\ op = "count" => children = prev
    /\ (op = "remove" /\ prevOp = "count") => retCount = NumTabs(prev) - NumTabs(children)

C2_Witness ==
    /\ op = "remove"
    /\ prevOp = "count"
    /\ retCount >= 2
    /\ NumTabs(children) > 0
    /\ \E i \in 1..Len(prev) : prev[i].kind = "Run" /\ HasOther(prev[i].children)

\* C3: strip_text_from_left(S) with S = get_text() leaves a paragraph whose
\* get_text() is the empty string.
C3_StripWholeTextLeavesNone ==
    (op = "strip" /\ arg = get_text(prev)) => get_text(children) = <<>>

C3_Witness ==
    /\ op = "strip"
    /\ arg = get_text(prev)
    /\ get_text(children) = <<>>
    /\ \E i \in 1..Len(prev) : prev[i].kind # "Run"
    /\ \E i \in 1..Len(prev) :
          prev[i].kind = "Run" /\ Cardinality(FilledTexts(prev[i].children)) = 2

\* C4: a heading_style read that computes returns the first heading of the style
\* chain, none when there is no heading; every read returns the value the first
\* read returned (or the value given to the setter since), whatever was changed.
C4_HeadingFirstMatchCached ==
    /\ hop = "computed" => hret = FirstHeading(styles, CurrentChain)
    /\ hop \in {"computed", "cached"} => (firstHeading.read /\ hret = firstHeading.style)

C4_Witness ==
    /\ hop = "cached"
    /\ hret = 0
    /\ firstHeading = [read |-> TRUE, style |-> 0, set |-> FALSE]
    /\ FirstHeading(styles, CurrentChain) # 0

MissingLink(p) ==
    \/ ~hasNumPart
    \/ ~p.present
    \/ ~p.has_num
    \/ ~numbering[p.num_id].defined
    \/ (nop = "getlevel" /\ p.level_id \notin numbering[p.num_id].levels)

\* C5 as stated: get_numbering_definition() and get_numbering_level() return no
\* result and do not raise when the table, the paragraph's properties, their
\* numbering reference, the definition or the level is missing, and look up the
\* table only when table, properties and numbering reference are present.
C5_NoResultOnMissingProperties ==
    nop \in {"getdef", "getlevel"} =>
        /\ nret.kind # "Raise"
        /\ MissingLink(properties) => nret = None
        /\ lookupMade => (hasNumPart /\ properties.present /\ properties.has_num)

\* C5, amended: the same of the paragraph's effective properties, the memoized
\* value the two calls read, in place of its properties.
C5_NoResultOnMissingEffective ==
    nop \in {"getdef", "getlevel"} =>
        /\ nret.kind # "Raise"
        /\ MissingLink(effective) => nret = None
        /\ lookupMade => (hasNumPart /\ effective.present /\ effective.has_num)

C5_Witness ==
    /\ nop = "getlevel"
    /\ lookupMade
    /\ nret = None
    /\ numbering[effective.num_id].defined
    /\ effective.level_id \notin numbering[effective.num_id].levels

\* C6: a second remove_initial_tabs() in a row removes nothing, and
\* get_number_of_initial_tabs() is 0 after a remove_initial_tabs().
C6_RemoveIsIdempotent ==
    /\ (op = "remove" /\ prevOp = "remove") => children = prev
    /\ (op = "count" /\ prevOp = "remove") => retCount = 0

C6_Witness ==
    /\ op = "remove"
    /\ prevOp = "remove"
    /\ retCount > 0
    /\ NumTabs(children) > 0

\* C7: remove_initial_tabs() removes no TabChar from a Run that follows a Run
\* holding a node other than a TabChar, or that follows a non-Run child.
C7_RemoveStopsAtFirstOther ==
    op = "remove" =>
        \A j \in 1..Len(prev) :
            (\E i \in 1..(j - 1) : prev[i].kind # "Run" \/ HasOther(prev[i].children))
                => children[j] = prev[j]

\* C8: strip_text_from_left keeps every paragraph child and run child in place,
\* changes no non-Text node and nothing inside a non-Run child, and leaves each
\* Text fragment a suffix of what it was.
C8_StripKeepsShape ==
    op = "strip" =>
        /\ Len(children) = Len(prev)
        /\ \A i \in 1..Len(prev) :
              /\ children[i].kind = prev[i].kind
              /\ prev[i].kind # "Run" => children[i] = prev[i]
              /\ Len(children[i].children) = Len(prev[i].children)
              /\ \A k \in 1..Len(prev[i].children) :
                    /\ children[i].children[k].type = prev[i].children[k].type
                    /\ prev[i].children[k].type # "Text"
                          => children[i].children[k] = prev[i].children[k]
                    /\ IsSuffix(children[i].children[k].text, prev[i].children[k].text)

C8_Witness ==
    /\ op = "strip"
    /\ ~StartsWith(get_text(prev), arg)
    /\ children # prev
    /\ \E i \in 1..Len(prev) : prev[i].kind # "Run"

\* C9: every read of effective_properties returns what the first read returned.
C9_EffectiveReadOnce ==
    nop = "read" => (firstEff.read /\ retEff = firstEff.value)

\* C10: a started heading_style read ends, and on a cyclic chain without a
\* heading it ends with the fatal condition.
C10_HeadingReadEnds ==
    /\ [](pc = "loop" => <>(pc = "idle"))
    /\ []((pc = "loop" /\ CyclicNoHeading) => <>(pc = "idle" /\ hop = "fatal"))

C10_Witness ==
    /\ pc = "idle"
    /\ hop = "fatal"
    /\ CyclicNoHeading
    /\ Len(CurrentChain) = 2

====
